---- MODULE Spec2Model ----
(***************************************************************************)
(* boomer (src/boomer/api.py): a text is cut into tokens, a chain of       *)
(* token algorithms and then of text algorithms rewrites it, each one      *)
(* deciding with a weighted draw from the process-wide random generator.   *)
(* Texts are sequences of one-character strings.                           *)
(***************************************************************************)
EXTENDS Integers, Sequences, FiniteSets, TLC

(* ------------------------------------------------------------------ *)
(* Characters and the str methods the code relies on                    *)
(* ------------------------------------------------------------------ *)

LowerChars ==
  << "a", "b", "c", "d", "e", "f", "g", "h", "i", "j", "k", "l", "m",
     "n", "o", "p", "q", "r", "s", "t", "u", "v", "w", "x", "y", "z",
     "à", "â", "ç", "è", "é", "ê", "ë", "î", "ï", "ô", "ö", "ù", "û", "ü" >>

UpperChars ==
  << "A", "B", "C", "D", "E", "F", "G", "H", "I", "J", "K", "L", "M",
     "N", "O", "P", "Q", "R", "S", "T", "U", "V", "W", "X", "Y", "Z",
     "À", "Â", "Ç", "È", "É", "Ê", "Ë", "Î", "Ï", "Ô", "Ö", "Ù", "Û", "Ü" >>

Range(f) == { f[i] : i \in DOMAIN f }

\* the member of a singleton: the({ F(x) : x \in { e } }) is F(e), with e
\* evaluated once
the(S) == CHOOSE x \in S : TRUE

LowerSet == Range(LowerChars)

UpperSet == Range(UpperChars)

ToLowerMap ==
  [ c \in UpperSet |->
      LowerChars[CHOOSE i \in DOMAIN UpperChars : UpperChars[i] = c] ]

ToUpperMap ==
  [ c \in LowerSet |->
      UpperChars[CHOOSE i \in DOMAIN LowerChars : LowerChars[i] = c] ]

\* c.lower(), c.upper(), c.islower(), c.isupper() of one character
lowerC(c) == IF c \in UpperSet THEN ToLowerMap[c] ELSE c

upperC(c) == IF c \in LowerSet THEN ToUpperMap[c] ELSE c

\* str.lower(), str.upper()
lower(s) == [ i \in 1..Len(s) |-> lowerC(s[i]) ]

upper(s) == [ i \in 1..Len(s) |-> upperC(s[i]) ]

\* str.islower(): a cased character, and no uppercase one
islower(s) ==
  /\ \E i \in 1..Len(s) : s[i] \in LowerSet
  /\ \A i \in 1..Len(s) : s[i] \notin UpperSet

\* str.isupper()
isupper(s) ==
  /\ \E i \in 1..Len(s) : s[i] \in UpperSet
  /\ \A i \in 1..Len(s) : s[i] \notin LowerSet

\* str.istitle(): uppercase only after an uncased character, lowercase only
\* after a cased one, and a cased character
istitle(s) ==
  /\ \E i \in 1..Len(s) : s[i] \in LowerSet \cup UpperSet
  /\ \A i \in 1..Len(s) :
       /\ s[i] \in UpperSet =>
            (i = 1 \/ s[i - 1] \notin LowerSet \cup UpperSet)
       /\ s[i] \in LowerSet =>
            (i > 1 /\ s[i - 1] \in LowerSet \cup UpperSet)

\* str.capitalize()
capitalize(s) ==
  [ i \in 1..Len(s) |-> IF i = 1 THEN upperC(s[i]) ELSE lowerC(s[i]) ]

\* the characters str.strip() removes
Whitespace == { " ", "\n", "\t" }

\* str.strip()
strip(s) ==
  LET keep == { i \in 1..Len(s) : s[i] \notin Whitespace }
  IN  IF keep = {} THEN << >>
      ELSE LET a == CHOOSE i \in keep : \A j \in keep : i <= j
               b == CHOOSE i \in keep : \A j \in keep : j <= i
           IN  SubSeq(s, a, b)

\* str.startswith(), str.endswith()
startswith(s, p) == Len(p) <= Len(s) /\ SubSeq(s, 1, Len(p)) = p

endswith(s, p) ==
  Len(p) <= Len(s) /\ SubSeq(s, Len(s) - Len(p) + 1, Len(s)) = p

\* s[n:] and s[:-n] (n > 0) of Python
drop(s, n) == SubSeq(s, n + 1, Len(s))

dropLast(s, n) == SubSeq(s, 1, Len(s) - n)

\* str.split(' '): the pieces between the spaces, one more than spaces
split(s) ==
  LET spaces == { i \in 1..Len(s) : s[i] = " " }
      \* the place of the m-th space; 0 and Len(s) + 1 bound the text
      at(m) == IF m = 0 THEN 0
               ELSE IF m > Cardinality(spaces) THEN Len(s) + 1
               ELSE CHOOSE p \in spaces :
                      Cardinality({ q \in spaces : q < p }) = m - 1
  IN  [ m \in 1..(Cardinality(spaces) + 1) |->
          SubSeq(s, at(m - 1) + 1, at(m) - 1) ]

\* ''.join(list)
RECURSIVE join(_)
join(l) ==
  the({ IF v = << >> THEN << >> ELSE Head(v) \o join(Tail(v)) : v \in { l } })

(* ------------------------------------------------------------------ *)
(* Bounds of the model                                                  *)
(* ------------------------------------------------------------------ *)

\* number of states of the process-wide generator
RngMod == 8

\* seeds a caller passes: 0..MaxSeed
MaxSeed == 1

\* length of the free-form input texts
MaxLen == 5

(* ------------------------------------------------------------------ *)
(* The random module: one process-wide generator                        *)
(* ------------------------------------------------------------------ *)

RngStates == 0..(RngMod - 1)

\* the generator's state after one draw
advance(s) == (5 * s + 3) % RngMod

\* random.seed(seed)
seedState(n) == (3 * n + 1) % RngMod

\* the index random.choice() and random.randint() draw among n values
randbelow(n, s) == (s * n) \div RngMod

\* _Algo._random_bool: random.choices([True, False], weights)[0]; random()
\* is s / RngMod, the result True iff random() * total < weights[0].  A total
\* of zero raises ValueError where random.choices checks it (raises = TRUE);
\* an interpreter that does not check it returns False.
_random_bool(true_false_weights, s, raises) ==
  LET total == true_false_weights[1] + true_false_weights[2]
  IN  IF total <= 0 /\ raises
        THEN [err |-> TRUE, val |-> FALSE, rng |-> s]
        ELSE [err |-> FALSE,
              val |-> s * total < true_false_weights[1] * RngMod,
              rng |-> advance(s)]

\* iteration order of a Python set in this process: the members as written
\* (order 0) or the other way round (order 1)
reverse(l) == [ i \in 1..Len(l) |-> l[Len(l) + 1 - i] ]

listed(set, order) == IF order = 0 THEN set ELSE reverse(set)

minus(set, item) == SelectSeq(set, LAMBDA x : x # item)

\* _Algo._choose_other_in_set: random.choice(list(set - {item}))
_choose_other_in_set(item, set, s, order) ==
  the({ [val |-> l[randbelow(Len(l), s) + 1], rng |-> advance(s)] :
        l \in { listed(minus(set, item), order) } })

(* ------------------------------------------------------------------ *)
(* _Token                                                               *)
(* ------------------------------------------------------------------ *)

_Token(text, has_trailing_space) ==
  [text |-> text, has_trailing_space |-> has_trailing_space]

\* _Token.replace_keep_form: the new text of a token whose text is old
replace_keep_form(old, text) ==
  IF islower(old) THEN lower(text)
  ELSE IF isupper(old) THEN upper(text)
  ELSE IF istitle(old) THEN capitalize(text)
  ELSE text

\* _Token.replace_suffix(suffix, rem_len), keep_form = True
replace_suffix(old, suffix, rem_len) ==
  replace_keep_form(old, dropLast(old, rem_len) \o suffix)

\* _Token.replace_prefix(prefix, rem_len), keep_form = True
replace_prefix(old, prefix, rem_len) ==
  replace_keep_form(old, prefix \o drop(old, rem_len))

(* ------------------------------------------------------------------ *)
(* _tokenize and _textize                                               *)
(* ------------------------------------------------------------------ *)

Punctuation == { ",", ".", ":", ";", "!", "?", ")", "]", "}" }

\* re.match(r'(.+)([,.:;!?\])}]+)$', tt): '.' matches no line break, '$'
\* matches at the end and before a final line break, and the greedy first
\* group leaves one character to the second
punct_match(tt) ==
  LET body == IF Len(tt) > 0 /\ tt[Len(tt)] = "\n"
                THEN dropLast(tt, 1) ELSE tt
  IN  /\ Len(body) >= 2
      /\ body[Len(body)] \in Punctuation
      /\ \A i \in 1..Len(body) : body[i] # "\n"

punct_groups(tt) ==
  LET body == IF tt[Len(tt)] = "\n" THEN dropLast(tt, 1) ELSE tt
  IN  << dropLast(body, 1), << body[Len(body)] >> >>

\* the tokens of one piece of text.split(' ')
tokens_of(tt) ==
  IF punct_match(tt)
    THEN << _Token(punct_groups(tt)[1], FALSE),
            _Token(punct_groups(tt)[2], TRUE) >>
    ELSE << _Token(tt, TRUE) >>

_tokenize(text) ==
  the({ join([ m \in DOMAIN ttokens |-> tokens_of(ttokens[m]) ]) :
        ttokens \in { split(text) } })

\* what _textize appends for one token
ttokens_of(t) ==
  t.text \o (IF t.has_trailing_space THEN << " " >> ELSE << >>)

\* a _textize that lacks line 563's strip()
_textize_unstripped(tokens) ==
  join([ m \in DOMAIN tokens |-> ttokens_of(tokens[m]) ])

_textize(tokens) ==
  the({ strip(joined) :
        joined \in { join([ m \in DOMAIN tokens |-> ttokens_of(tokens[m]) ]) } })

(* ------------------------------------------------------------------ *)
(* The rule sets of the algorithms (sets in the order they are written)  *)
(* ------------------------------------------------------------------ *)

\* _MoniqueAlgo._rep_sets
_rep_sets ==
  << << <<"c", "'", "e", "s", "t">>, <<"c", "e", "s">>, <<"s", "e", "s">>, <<"s", "a", "i", "s">>, <<"s", "a", "i", "t">> >>,
     << <<"à">>, <<"a">> >>,
     << <<"ç", "a">>, <<"s", "a">> >>,
     << <<"c", "e">>, <<"s", "e">> >>,
     << <<"d", "a", "n", "s">>, <<"d", "'", "e", "n">> >>,
     << <<"l", "a">>, <<"l", "à">>, <<"l", "'", "a", "s">> >>,
     << <<"m", "a">>, <<"m", "'", "a">>, <<"m", "'", "a", "s">> >>,
     << <<"t", "a">>, <<"t", "'", "a">>, <<"t", "'", "a", "s">> >>,
     << <<"m", "o", "n">>, <<"m", "'", "o", "n", "t">>, <<"m", "o", "n", "t">> >>,
     << <<"t", "o", "n">>, <<"t", "'", "o", "n", "t">>, <<"t", "h", "o", "n">> >>,
     << <<"l", "e", "u", "r">>, <<"l", "e", "u", "r", "s">>, <<"l", "'", "h", "e", "u", "r", "e">> >>,
     << <<"m", "e", "s">>, <<"m", "'", "e", "s">>, <<"m", "'", "e", "s", "t">>, <<"m", "e", "t", "s">>, <<"m", "e", "t">>, <<"m", "a", "i", "s">> >>,
     << <<"n", "i">>, <<"n", "'", "y">> >>,
     << <<"o", "ù">>, <<"o", "u">> >>,
     << <<"o", "n">>, <<"o", "n", "t">> >>,
     << <<"p", "a", "r", "c", "e">>, <<"p", "a", "r", " ", "c", "e">>, <<"p", "a", "r", " ", "s", "e">> >>,
     << <<"p", "e", "u">>, <<"p", "e", "u", "x">>, <<"p", "e", "u", "t">>, <<"p", "e", "u", "s">> >>,
     << <<"p", "e", "u", "t", "-", "ê", "t", "r", "e">>, <<"p", "e", "u", "t", " ", "ê", "t", "r", "e">>, <<"p", "e", "u", " ", "ê", "t", "r", "e">> >>,
     << <<"p", "r", "è", "s">>, <<"p", "r", "ê", "t">> >>,
     << <<"q", "u", "'", "e", "n">>, <<"q", "u", "a", "n", "d">>, <<"q", "u", "a", "n", "t">> >>,
     << <<"q", "u", "e", "l", "q", "u", "e">>, <<"q", "u", "e", "l", "q", "u", "e", "s">>, <<"q", "u", "e", "l", " ", "q", "u", "e">>, <<"q", "u", "e", "l", "s", " ", "q", "u", "e">>, <<"q", "u", "e", "l", "l", "e", "s", " ", "q", "u", "e">> >>,
     << <<"q", "u", "'", "e", "l", "l", "e">>, <<"q", "u", "'", "e", "l", "l", "e", "s">>, <<"q", "u", "e", "l">>, <<"q", "u", "e", "l", "s">>, <<"q", "u", "e", "l", "l", "e">>, <<"q", "u", "e", "l", "l", "e", "s">> >>,
     << <<"q", "u", "'", "i", "l">>, <<"q", "u", "'", "i", "l", "s">> >>,
     << <<"s", "'", "e", "n">>, <<"s", "e", "n", "s">>, <<"s", "e", "n", "t">>, <<"s", "a", "n", "s">>, <<"s", "a", "n", "g">> >>,
     << <<"t", "'", "e", "n">>, <<"t", "e", "m", "p", "s">>, <<"t", "a", "n", "t">>, <<"t", "e", "n", "d">>, <<"t", "e", "n", "d", "s">> >>,
     << <<"s", "'", "y">>, <<"s", "i">>, <<"c", "i">> >>,
     << <<"s", "o", "n">>, <<"s", "o", "n", "t">> >>,
     << <<"l", "u", "a", "n", "c", "e">>, <<"n", "u", "a", "n", "c", "e">> >>,
     << <<"f", "a", "i", "r", "e">>, <<"f", "e", "r">> >>,
     << <<"p", "a", "s">>, <<"p", "a">> >>,
     << <<"d", "u">>, <<"d", "e", " ", "l", "e">> >>,
     << <<"d", "e", "s">>, <<"d", "e", " ", "l", "e", "s">> >>,
     << <<"a", "u">>, <<"à", " ", "l", "e">> >>,
     << <<"a", "u", "x">>, <<"à", " ", "l", "e", "s">> >>,
     << <<"t", "o", "u", "s">>, <<"t", "o", "u", "t">>, <<"t", "o", "u", "t", "s">> >>,
     << <<"t", "o", "u", "t", "e">>, <<"t", "o", "u", "t", "e", "s">> >> >>

\* _AlainAlgo._suffix_sets
_suffix_sets ==
  << << <<"e", "r">>, <<"e", "z">>, <<"é">>, <<"é", "s">>, <<"é", "e">>, <<"é", "e", "s">> >>,
     << <<"t", "a", "i", "l">>, <<"t", "a", "i", "l", "l", "e">>, <<"t", "a", "i", "l", "s">>, <<"t", "a", "i", "l", "l", "e", "s">> >>,
     << <<"v", "a", "i", "l">>, <<"v", "a", "i", "l", "l", "e">>, <<"v", "a", "i", "l", "s">>, <<"v", "a", "i", "l", "l", "e", "s">> >>,
     << <<"b", "a", "i", "l">>, <<"b", "a", "i", "l", "l", "e">>, <<"b", "a", "i", "l", "s">>, <<"b", "a", "i", "l", "l", "e", "s">> >>,
     << <<"m", "e", "n", "t">>, <<"m", "a", "n", "t">>, <<"m", "e", "n", "t", "s">>, <<"m", "a", "n", "t", "s">> >>,
     << <<"s", "o", "n">>, <<"s", "o", "n", "t">>, <<"s", "o", "n", "s">>, <<"s", "o", "n", "t", "s">> >>,
     << <<"a", "i", "n">>, <<"e", "i", "n">>, <<"a", "i", "n", "s">>, <<"e", "i", "n", "s">> >>,
     << <<"a", "n", "c", "e">>, <<"e", "n", "c", "e">>, <<"a", "n", "c", "e", "s">>, <<"e", "n", "c", "e", "s">> >>,
     << <<"a", "r", "d">>, <<"a", "r", "t">>, <<"a", "r", "d", "s">>, <<"a", "r", "t", "s">> >>,
     << <<"a", "l">>, <<"a", "l", "e">>, <<"a", "l", "s">> >>,
     << <<"a", "u", "d">>, <<"o">> >>,
     << <<"e", "l">>, <<"e", "l", "s">>, <<"e", "l", "l", "e">>, <<"e", "l", "l", "e", "s">> >>,
     << <<"i", "l">>, <<"i", "l", "s">>, <<"i", "l", "e">>, <<"i", "l", "e", "s">> >>,
     << <<"e", "u", "x">>, <<"e", "u">>, <<"e", "u", "s">> >>,
     << <<"e", "u", "r">>, <<"e", "u", "r", "e">>, <<"e", "u", "r", "e", "s">> >>,
     << <<"c", "i", "d", "e">>, <<"s", "i", "d", "e">>, <<"c", "i", "d", "e", "s">>, <<"s", "i", "d", "e", "s">> >>,
     << <<"v", "o", "r", "e">>, <<"v", "o", "r", "e", "s">>, <<"v", "a", "u", "r", "e">>, <<"v", "a", "u", "r", "e", "s">> >>,
     << <<"o", "s", "e">>, <<"a", "u", "s", "e">>, <<"o", "s", "e", "s">>, <<"a", "u", "s", "e", "s">> >>,
     << <<"g", "r", "a", "m", "m", "e">>, <<"g", "r", "a", "m", "e">>, <<"g", "r", "a", "m">>, <<"g", "r", "a", "m", "m", "e", "s">>, <<"g", "r", "a", "m", "e", "s">>, <<"g", "r", "a", "m", "s">> >>,
     << <<"g", "è", "n", "e">>, <<"g", "ê", "n", "e">>, <<"g", "e", "n", "e">>, <<"g", "è", "n", "e", "s">>, <<"g", "ê", "n", "e", "s">>, <<"g", "e", "n", "e", "s">> >>,
     << <<"l", "o", "g", "i", "e">>, <<"l", "o", "g", "i", "e", "s">>, <<"l", "o", "g", "i", "s">>, <<"l", "o", "g", "y">> >>,
     << <<"i", "b", "l", "e">>, <<"i", "b", "l", "e", "s">> >>,
     << <<"l", "e", "t">>, <<"l", "a", "i", "t">>, <<"l", "a", "i", "t", "s">>, <<"l", "a", "i", "s">>, <<"l", "a", "i", "d">>, <<"l", "a", "i", "d", "s">> >>,
     << <<"i", "s", "t", "e">>, <<"i", "s", "t", "e", "s">>, <<"i", "s", "s", "e">>, <<"i", "s", "s", "e", "s">> >>,
     << <<"a", "b", "l", "e">>, <<"a", "b", "e">>, <<"a", "b", "l", "e", "s">>, <<"a", "b", "e", "s">> >>,
     << <<"e", "i", "l">>, <<"e", "i", "l", "s">>, <<"e", "i", "l", "l", "e">>, <<"e", "i", "l", "l", "e", "s">> >>,
     << <<"p", "o", "r", "t">>, <<"p", "o", "r", "c">> >> >>


\* _MarcAlgo._words
_words ==
  { <<"a", "u">>, <<"ç", "a">>, <<"c", "e">>, <<"c", "i">>, <<"d", "u">>, <<"d", "û">>, <<"e", "n">>, <<"e", "s">>, <<"e", "t">>, <<"e", "u">>, <<"i", "l">>, <<"j", "e">>, <<"l", "a">>, <<"l", "à">>, <<"l", "e">>, <<"m", "a">>, <<"m", "e">>, <<"n", "e">>, <<"n", "i">>, <<"o", "n">>, <<"o", "u">>, <<"o", "ù">>, <<"p", "u">>, <<"s", "a">>, <<"s", "e">>, <<"s", "i">>, <<"t", "a">>, <<"t", "e">>, <<"u", "n">> }

\* _GuyAlgo._accents
_accents ==
  << <<"à", "a">>, <<"â", "a">>, <<"è", "e">>, <<"é", "e">>, <<"ê", "e">>, <<"ë", "e">>, <<"ï", "i">>, <<"ö", "o">>, <<"ô", "o">>, <<"ù", "u">>, <<"ü", "u">>, <<"ç", "c">> >>

\* _SergeAlgo._reps, in the order of the dict
serge_reps ==
  << << <<"q", "u", "'">>, <<"q", "u", "e", " ">> >>,
     << <<"d", "'">>, <<"d", "e", " ">> >>,
     << <<"l", "'">>, <<"l", "a", " ">> >> >>

\* _YvesAlgo._reps, in the order of the dict
yves_reps ==
  << << <<"ç">>, <<"s", "s">> >>,
     << <<"n", "n">>, <<"n">> >>,
     << <<"t", "t">>, <<"t">> >>,
     << <<"s", "s">>, <<"c">> >> >>

\* boomer.verbs._verb_er_prefixes: stems of verbs of the first group
_verb_er_prefixes ==
  { <<"p", "a", "r", "l">>, <<"m", "a", "n", "g">>, <<"a", "i", "m">> }

\* the alternatives of _NicoleAlgo._find_suffix's pattern, as written
nicole_suffixes ==
  << <<"e", "a", "i", "s">>, <<"e", "a", "i", "t">>,
     <<"e", "a", "i", "e", "n", "t">>, <<"a", "i", "s">>, <<"a", "i", "t">>,
     <<"a", "i", "e", "n", "t">>, <<"e">>, <<"e", "s">>, <<"e", "n", "t">> >>

present_suffixes == << <<"e">>, <<"e", "s">>, <<"e", "n", "t">> >>

imperfect_suffixes ==
  << <<"a", "i", "s">>, <<"a", "i", "t">>, <<"a", "i", "e", "n", "t">> >>

imperfect2_suffixes ==
  << <<"e", "a", "i", "s">>, <<"e", "a", "i", "t">>,
     <<"e", "a", "i", "e", "n", "t">> >>

\* boomer's algo_clss: the algorithms in declaration order
algo_clss ==
  << "monique", "alain", "nicole", "serge", "andré", "muriel", "denis",
     "guy", "chantal", "marc", "manon", "sylvain", "josey", "yves" >>

AlgoNames == Range(algo_clss)

\* isinstance(algo, _TextAlgo); the others are _TokenAlgo
TextAlgos == { "sylvain", "josey", "yves" }

TokenAlgos == AlgoNames \ TextAlgos

\* _default_algo_cfgs()
_default_algo_cfgs ==
  [ n \in AlgoNames |->
      CASE n = "monique" -> <<3, 2>>
        [] n = "alain"   -> <<2, 1>>
        [] n = "nicole"  -> <<3, 1>>
        [] n = "serge"   -> <<2, 1>>
        [] n = "andré"   -> <<1, 3>>
        [] n = "muriel"  -> <<1, 2>>
        [] n = "denis"   -> <<2, 1>>
        [] n = "guy"     -> <<1, 1>>
        [] n = "chantal" -> <<2, 1>>
        [] n = "marc"    -> <<1, 5>>
        [] n = "manon"   -> <<1, 3>>
        [] n = "sylvain" -> <<1, 7>>
        [] n = "josey"   -> <<1, 15>>
        [] n = "yves"    -> <<1, 3>> ]

(* ------------------------------------------------------------------ *)
(* The token algorithms: filter(t) and trans(t)                         *)
(* A transformation yields the token's new fields and the generator's   *)
(* state after its draws.                                               *)
(* ------------------------------------------------------------------ *)

Min(S) == the({ CHOOSE x \in T : \A y \in T : x <= y : T \in { S } })

Result(text, has_trailing_space, s) ==
  [text |-> text, has_trailing_space |-> has_trailing_space, rng |-> s]

\* _MoniqueAlgo.filter
monique_filter(t) ==
  \E low \in { lower(t.text) } :
    \E i \in DOMAIN _rep_sets : low \in Range(_rep_sets[i])

\* _MoniqueAlgo.trans: every set that holds the token's lowercased text,
\* in the order of the list, replaces it
RECURSIVE monique_loop(_, _, _, _)
monique_loop(text, s, order, i) ==
  IF i > Len(_rep_sets) THEN [text |-> text, rng |-> s]
  ELSE IF lower(text) \in Range(_rep_sets[i])
    THEN the({ monique_loop(replace_keep_form(text, c.val), c.rng, order, j) :
               c \in { _choose_other_in_set(lower(text), _rep_sets[i], s,
                                            order) },
               j \in { i + 1 } })
    ELSE the({ monique_loop(text, s, order, j) : j \in { i + 1 } })

monique_trans(t, s, order) ==
  the({ Result(r.text, t.has_trailing_space, r.rng) :
        r \in { monique_loop(t.text, s, order, 1) } })

\* _AlainAlgo._find_suffixes: the first suffix, going through the sets in
\* the order of the list and through each set in its iteration order, that
\* the token ends with and is longer than; << >> for None
_find_suffixes(text, order) ==
  LET hit(i, low) ==
        { j \in 1..Len(_suffix_sets[i]) :
            \E suffix \in { listed(_suffix_sets[i], order)[j] } :
              /\ Len(text) > Len(suffix)
              /\ endswith(low, suffix) }
  IN  the({ IF sets = {} THEN << >>
            ELSE the({ << listed(_suffix_sets[i], order)[Min(hit(i, low))], i >> :
                       i \in { Min(sets) } }) :
            low \in { lower(text) },
            sets \in { { i \in DOMAIN _suffix_sets :
                           hit(i, lower(text)) # {} } } })

\* _AlainAlgo.filter
alain_filter(t, order) == _find_suffixes(t.text, order) # << >>

\* _AlainAlgo.trans
alain_trans(t, s, order) ==
  the({ the({ Result(replace_suffix(t.text, c.val, Len(found[1])),
                     t.has_trailing_space, c.rng) :
              c \in { _choose_other_in_set(found[1], _suffix_sets[found[2]],
                                           s, order) } }) :
        found \in { _find_suffixes(t.text, order) } })

\* _NicoleAlgo._find_suffix: the pattern (.+?)(eais|...|ent)$ takes the
\* shortest first group, then the first alternative that reaches the end (or
\* the final line break); << >> for None, also when the first group is no
\* verb stem
nicole_match(body) ==
  LET fits(k, a) == /\ drop(body, k) = nicole_suffixes[a]
                    /\ \A i \in 1..k : body[i] # "\n"
  IN  the({ IF ks = {} THEN << >>
            ELSE the({ IF SubSeq(body, 1, k) \in _verb_er_prefixes
                         THEN << nicole_suffixes[
                                   Min({ x \in DOMAIN nicole_suffixes :
                                           fits(k, x) })] >>
                         ELSE << >> :
                       k \in { Min(ks) } }) :
            ks \in { { k \in 1..(Len(body) - 1) :
                         \E a \in DOMAIN nicole_suffixes : fits(k, a) } } })

nicole_find_suffix(text) ==
  the({ nicole_match(IF Len(low) > 0 /\ low[Len(low)] = "\n"
                       THEN dropLast(low, 1) ELSE low) :
        low \in { lower(text) } })

\* _NicoleAlgo.filter
nicole_filter(t) == nicole_find_suffix(t.text) # << >>

\* the set of _NicoleAlgo.trans that holds the suffix
nicole_family(orig_suffix) ==
  IF orig_suffix \in Range(present_suffixes) THEN present_suffixes
  ELSE IF orig_suffix \in Range(imperfect_suffixes) THEN imperfect_suffixes
  ELSE imperfect2_suffixes

\* _NicoleAlgo.trans
nicole_trans(t, s, order) ==
  the({ the({ Result(replace_suffix(t.text, c.val, Len(orig_suffix)),
                     t.has_trailing_space, c.rng) :
              c \in { _choose_other_in_set(orig_suffix,
                                           nicole_family(orig_suffix),
                                           s, order) } }) :
        orig_suffix \in { nicole_find_suffix(t.text)[1] } })

\* _SergeAlgo._find_prefix: the first entry of _reps the token starts with;
\* 0 for None
serge_find_prefix(text) ==
  the({ IF hit = {} THEN 0 ELSE Min(hit) :
        hit \in { { i \in DOMAIN serge_reps :
                      startswith(lower(text), serge_reps[i][1]) } } })

\* _SergeAlgo.filter
serge_filter(t) == serge_find_prefix(t.text) # 0

\* _SergeAlgo.trans
serge_trans(t, s) ==
  the({ Result(replace_prefix(t.text, found[2], Len(found[1])),
               t.has_trailing_space, s) :
        found \in { serge_reps[serge_find_prefix(t.text)] } })

\* _AndréAlgo.filter: len(t) >= 2 and t.starts_with_lower
andre_filter(t) == Len(t.text) >= 2 /\ t.text[1] \in LowerSet

\* _AndréAlgo.trans
andre_trans(t, s) ==
  Result(<< upperC(t.text[1]) >> \o drop(t.text, 1), t.has_trailing_space, s)

\* _MurielAlgo.filter: len(t) >= 2 and t.starts_with_upper
muriel_filter(t) == Len(t.text) >= 2 /\ t.text[1] \in UpperSet

\* _MurielAlgo.trans
muriel_trans(t, s) ==
  Result(<< lowerC(t.text[1]) >> \o drop(t.text, 1), t.has_trailing_space, s)

\* _DenisAlgo.filter
denis_filter(t) == t.text \in { <<".">>, <<",">>, <<"!">>, <<"?">> }

\* _DenisAlgo.trans: random.randint(2, 7) copies, each after a space when
\* random.randint(0, 2) is 0; acc holds the output and the generator's state
RECURSIVE denis_loop(_, _, _)
denis_loop(text, n, acc) ==
  IF n = 0 THEN acc
  ELSE the({ denis_loop(text, m, a) :
             m \in { n - 1 },
             a \in { [text |-> acc.text
                                 \o (IF randbelow(3, acc.rng) = 0
                                       THEN << " " >> ELSE << >>)
                                 \o text,
                      rng |-> advance(acc.rng)] } })

denis_trans(t, s) ==
  the({ Result(r.text, t.has_trailing_space, r.rng) :
        r \in { denis_loop(t.text, 2 + randbelow(6, s),
                           [text |-> << >>, rng |-> advance(s)]) } })

\* _GuyAlgo.filter
guy_filter(t) ==
  \E low \in { lower(t.text) } :
    \E i \in 1..Len(low) : \E a \in DOMAIN _accents : low[i] = _accents[a][1]

\* _GuyAlgo defines trans_cb, which nothing calls: its trans is
\* _TokenAlgo.trans, which does nothing
guy_trans(t, s) == Result(t.text, t.has_trailing_space, s)

\* str.replace(old, new) for a one-character old
replace_char(text, old, new) ==
  join([ i \in 1..Len(text) |-> IF text[i] = old THEN new ELSE << text[i] >> ])

\* random.choice([' ', ''])
space_or_nothing(s) == IF randbelow(2, s) = 0 THEN << " " >> ELSE << >>

\* _ChantalAlgo.filter
chantal_filter(t) == \E i \in 1..Len(t.text) : t.text[i] \in { "'", "-" }

\* _ChantalAlgo.trans: random.choice([' ', '']) once for the apostrophes,
\* once for the hyphens
chantal_trans(t, s) ==
  the({ Result(replace_char(once, "-", space_or_nothing(advance(s))),
               t.has_trailing_space, advance(advance(s))) :
        once \in { replace_char(t.text, "'", space_or_nothing(s)) } })

\* _MarcAlgo.filter
marc_filter(t) == lower(t.text) \in _words

\* _MarcAlgo.trans
marc_trans(t, s) == Result(<< >>, FALSE, s)

\* _ManonAlgo.filter
manon_filter(t) == Len(t.text) >= 7

\* _ManonAlgo.trans: first_index = random.randint(1, len(t) - 3), counted
\* from 0
manon_trans(t, s) ==
  the({ Result(SubSeq(t.text, 1, first_index)
                 \o << t.text[first_index + 2], t.text[first_index + 1] >>
                 \o drop(t.text, first_index + 2),
               t.has_trailing_space, advance(s)) :
        first_index \in { 1 + randbelow(Len(t.text) - 3, s) } })

\* filter(t) of the algorithm called name
filter(name, t, order) ==
  CASE name = "monique" -> monique_filter(t)
    [] name = "alain"   -> alain_filter(t, order)
    [] name = "nicole"  -> nicole_filter(t)
    [] name = "serge"   -> serge_filter(t)
    [] name = "andré"   -> andre_filter(t)
    [] name = "muriel"  -> muriel_filter(t)
    [] name = "denis"   -> denis_filter(t)
    [] name = "guy"     -> guy_filter(t)
    [] name = "chantal" -> chantal_filter(t)
    [] name = "marc"    -> marc_filter(t)
    [] name = "manon"   -> manon_filter(t)

\* trans(t) of the algorithm called name
trans(name, t, s, order) ==
  CASE name = "monique" -> monique_trans(t, s, order)
    [] name = "alain"   -> alain_trans(t, s, order)
    [] name = "nicole"  -> nicole_trans(t, s, order)
    [] name = "serge"   -> serge_trans(t, s)
    [] name = "andré"   -> andre_trans(t, s)
    [] name = "muriel"  -> muriel_trans(t, s)
    [] name = "denis"   -> denis_trans(t, s)
    [] name = "guy"     -> guy_trans(t, s)
    [] name = "chantal" -> chantal_trans(t, s)
    [] name = "marc"    -> marc_trans(t, s)
    [] name = "manon"   -> manon_trans(t, s)

\* one turn of _TokenAlgo._apply_with_prob's loop, for token i when it
\* passes the filter: a draw, and the transformation when the draw is True.
\* acc holds the tokens, the generator's state, whether a draw raised, and
\* the numbers of draws made and of transformations applied.
apply_one(name, true_false_weights, acc, i, env) ==
  the({ IF b.err THEN [acc EXCEPT !.err = TRUE]
        ELSE IF ~b.val THEN [acc EXCEPT !.rng = b.rng, !.draws = @ + 1]
        ELSE the({ [acc EXCEPT
                      !.tokens[i] = _Token(r.text, r.has_trailing_space),
                      !.rng = r.rng,
                      !.draws = @ + 1,
                      !.applied = @ + 1] :
                   r \in { trans(name, acc.tokens[i], b.rng, env.order) } }) :
        b \in { _random_bool(true_false_weights, acc.rng, env.raises) } })

\* _TokenAlgo._apply_with_prob from token i on
RECURSIVE _apply_with_prob(_, _, _, _, _)
_apply_with_prob(name, true_false_weights, acc, i, env) ==
  IF i > Len(acc.tokens) \/ acc.err THEN acc
  ELSE the({ _apply_with_prob(name, true_false_weights, a, j, env) :
             j \in { i + 1 },
             a \in { IF filter(name, acc.tokens[i], env.order)
                       THEN apply_one(name, true_false_weights, acc, i, env)
                       ELSE acc } })

\* the accumulator at the start of an algorithm
start(content, s) ==
  [tokens |-> content, rng |-> s, err |-> FALSE, draws |-> 0, applied |-> 0]

\* algo.process_tokens(tokens): _GuyAlgo's passes the weights [1, 0] instead
\* of the configured ones
process_tokens(name, true_false_weights, tokens, s, env) ==
  _apply_with_prob(name,
                   IF name = "guy" THEN <<1, 0>> ELSE true_false_weights,
                   start(tokens, s), 1, env)

(* ------------------------------------------------------------------ *)
(* The text algorithms: process_text(text); acc.tokens is the output     *)
(* ------------------------------------------------------------------ *)

\* one turn of _SylvainAlgo.process_text's loop, for a space
sylvain_one(w, acc, env) ==
  the({ IF b.err THEN [acc EXCEPT !.err = TRUE]
        ELSE IF ~b.val
          THEN [acc EXCEPT !.tokens = @ \o << " " >>, !.rng = b.rng,
                           !.draws = @ + 1]
        ELSE [acc EXCEPT
                !.tokens = @ \o (IF randbelow(2, b.rng) = 0
                                   THEN << " ", " " >>
                                   ELSE << " ", " ", " " >>),
                !.rng = advance(b.rng),
                !.draws = @ + 1,
                !.applied = @ + 1] :
        b \in { _random_bool(w, acc.rng, env.raises) } })

\* _SylvainAlgo.process_text from character i on
RECURSIVE sylvain_loop(_, _, _, _, _)
sylvain_loop(text, w, acc, i, env) ==
  IF i > Len(text) \/ acc.err THEN acc
  ELSE the({ sylvain_loop(text, w, a, j, env) :
             j \in { i + 1 },
             a \in { IF text[i] = " " THEN sylvain_one(w, acc, env)
                     ELSE [acc EXCEPT !.tokens = @ \o << text[i] >>] } })

\* one turn of _JoseyAlgo.process_text's loop, for the character c
josey_one(c, w, acc, env) ==
  the({ IF b.err THEN [acc EXCEPT !.err = TRUE]
        ELSE IF ~b.val
          THEN [acc EXCEPT !.tokens = @ \o << c >>, !.rng = b.rng,
                           !.draws = @ + 1]
        ELSE [acc EXCEPT
                !.tokens = @ \o << c, IF randbelow(2, b.rng) = 0
                                        THEN "," ELSE "." >>,
                !.rng = advance(b.rng),
                !.draws = @ + 1,
                !.applied = @ + 1] :
        b \in { _random_bool(w, acc.rng, env.raises) } })

\* _JoseyAlgo.process_text from character i on
RECURSIVE josey_loop(_, _, _, _, _)
josey_loop(text, w, acc, i, env) ==
  IF i > Len(text) \/ acc.err THEN acc
  ELSE the({ josey_loop(text, w, a, j, env) :
             j \in { i + 1 },
             a \in { josey_one(text[i], w, acc, env) } })

\* _YvesAlgo.process_text at position i, from entry k of _reps on: an entry
\* that the rest of the text starts with gets a draw; the result is the
\* accumulator and the next position, or the same position when no entry
\* was applied
RECURSIVE yves_entries(_, _, _, _, _, _)
yves_entries(text, w, acc, i, k, env) ==
  IF k > Len(yves_reps) \/ acc.err THEN [acc |-> acc, i |-> i]
  ELSE IF ~startswith(drop(text, i - 1), yves_reps[k][1])
    THEN the({ yves_entries(text, w, acc, i, m, env) : m \in { k + 1 } })
  ELSE the({ IF b.err THEN [acc |-> [acc EXCEPT !.err = TRUE], i |-> i]
             ELSE IF ~b.val
               THEN the({ yves_entries(text, w, a, i, m, env) :
                          m \in { k + 1 },
                          a \in { [acc EXCEPT !.rng = b.rng,
                                              !.draws = @ + 1] } })
             ELSE [acc |-> [acc EXCEPT !.tokens = @ \o yves_reps[k][2],
                                       !.rng = b.rng,
                                       !.draws = @ + 1,
                                       !.applied = @ + 1],
                   i |-> i + Len(yves_reps[k][1])] :
             b \in { _random_bool(w, acc.rng, env.raises) } })

\* _YvesAlgo.process_text from position i on
RECURSIVE yves_loop(_, _, _, _, _)
yves_loop(text, w, acc, i, env) ==
  IF i > Len(text) \/ acc.err THEN acc
  ELSE the({ IF r.i > i \/ r.acc.err
               THEN yves_loop(text, w, r.acc, r.i, env)
               ELSE the({ yves_loop(text, w, a, j, env) :
                          j \in { i + 1 },
                          a \in { [r.acc EXCEPT
                                     !.tokens = @ \o << text[i] >>] } }) :
             r \in { yves_entries(text, w, acc, i, 1, env) } })

\* algo.process_text(text)
process_text(name, true_false_weights, text, s, env) ==
  CASE name = "sylvain" ->
         sylvain_loop(text, true_false_weights, start(<< >>, s), 1, env)
    [] name = "josey" ->
         josey_loop(text, true_false_weights, start(<< >>, s), 1, env)
    [] name = "yves" ->
         yves_loop(text, true_false_weights, start(<< >>, s), 1, env)

(* ------------------------------------------------------------------ *)
(* Callers' arguments                                                   *)
(* ------------------------------------------------------------------ *)

\* None, for a configuration entry and for the seed
None == << >>

\* the texts callers pass: words the rule sets know, in the three casings
Inputs ==
  { <<"l", "a">>,
    <<"C", "'", "e", "s", "t", " ", "l", "à", ".">>,
    <<"C", "'", "E", "S", "T">>,
    <<"C", "e", "s">>,
    <<"s", "o", "l", "e", "i", "l">>,
    <<"d", "é", "t", "a", "i", "l">>,
    <<"P", "a", "r", "l", "e", "n", "t">>,
    <<"L", "'", "é", "t", "é">>,
    <<"p", "e", "u", "t", "-", "ê", "t", "r", "e", " ", "ç", "a">>,
    <<"p", "a", "s", "s", "i", "o", "n", "n", "é", ",", " ", "l", "a", " ",
      "l", "a", "!">> }

\* the weight pairs of the configurations
Weights == { <<1, 0>>, <<0, 1>>, <<1, 1>>, <<0, 0>> }

\* every algorithm disabled
AllOff == [ n \in AlgoNames |-> None ]

\* every algorithm disabled but the ones of cfg
Only(cfg) == [ n \in AlgoNames |-> IF n \in DOMAIN cfg THEN cfg[n] ELSE None ]

\* pairs of algorithms run together
Pairs ==
  { <<"monique", "marc">>, <<"serge", "chantal">>, <<"andré", "muriel">>,
    <<"alain", "nicole">>, <<"chantal", "manon">>, <<"marc", "sylvain">>,
    <<"denis", "josey">>, <<"sylvain", "josey">>, <<"josey", "yves">>,
    <<"guy", "yves">> }

\* the configurations callers pass: no override at all (the defaults), all
\* disabled, one algorithm alone with each weight pair, two algorithms, and
\* two algorithms of which the second has the pair (0, 0)
Cfgs ==
  { << >>, AllOff }
    \cup { Only(n :> w) : n \in AlgoNames, w \in Weights }
    \cup { Only(p[1] :> <<1, 0>> @@ p[2] :> <<1, 0>>) : p \in Pairs }
    \cup { Only("marc" :> <<1, 0>> @@ "josey" :> <<0, 0>>) }

Seeds == { None } \cup { << n >> : n \in 0..MaxSeed }

\* the free-form texts: every text of at most MaxLen characters among a
\* letter, a punctuation character, the space and the line break
Texts == UNION { [1..k -> { "a", ".", " ", "\n" }] : k \in 0..MaxLen }

\* the calls that are made twice
TwiceInputs == { <<"l", "a">>, <<"s", "o", "l", "e", "i", "l">> }

TwiceCfgs == { << >>, Only("monique" :> <<1, 0>>) }

\* iteration orders of the sets, one per process
Orders == { 0, 1 }

(* ------------------------------------------------------------------ *)
(* boomer(input, algo_cfgs, seed)                                       *)
(* ------------------------------------------------------------------ *)

VARIABLES
  rng,         \* state of the process-wide generator
  order,       \* iteration order of the sets in this process
  raises,      \* whether random.choices raises on a total weight of zero;
               \* settled at the call, and TRUE when no total is zero
  pc,          \* "idle", "tokens", "text", "done" (returned), "error" (raised)
  input,       \* boomer's arguments
  algo_cfgs,
  seed,
  rand_state,  \* random.getstate() saved at the start
  tokens,
  algos,       \* names of the algorithms built, in order
  pos,         \* how many entries of algos the current loop is past
  output,
  log,         \* what each algorithm applied so far was given and made
  rng_before,  \* the generator's state when boomer was called
  run,         \* 1 for the first call, 2 for the repeated one
  first        \* what the first call returned

vars ==
  << rng, order, raises, pc, input, algo_cfgs, seed, rand_state, tokens,
     algos, pos, output, log, rng_before, run, first >>

\* effective_algo_cfgs: the defaults, updated with the caller's entries
effective_algo_cfgs(cfgs) ==
  [ n \in AlgoNames |->
      IF n \in DOMAIN cfgs THEN cfgs[n] ELSE _default_algo_cfgs[n] ]

\* boomer's algos: the algorithms whose entry is not None, in the order of
\* algo_clss
active_algos(cfgs) ==
  SelectSeq(algo_clss, LAMBDA n : effective_algo_cfgs(cfgs)[n] # None)

Env == [order |-> order, raises |-> raises]

Init ==
  /\ rng \in RngStates
  /\ order \in Orders
  /\ raises = TRUE
  /\ pc = "idle"
  /\ input = << >>
  /\ algo_cfgs = << >>
  /\ seed = None
  /\ rand_state = 0
  /\ tokens = << >>
  /\ algos = << >>
  /\ pos = 0
  /\ output = << >>
  /\ log = << >>
  /\ rng_before = 0
  /\ run = 1
  /\ first = << >>

\* lines 593-632: save and seed the generator, tokenize, configure, build
\* the algorithms; s is the generator's state at the call
Enter(inp, cfgs, sd, s) ==
  /\ input' = inp
  /\ algo_cfgs' = cfgs
  /\ seed' = sd
  /\ rng_before' = s
  /\ rand_state' = IF sd # None THEN s ELSE rand_state
  /\ rng' = IF sd # None THEN seedState(sd[1]) ELSE s
  /\ tokens' = _tokenize(inp)
  /\ algos' = active_algos(cfgs)
  /\ pos' = 0
  /\ output' = << >>
  /\ log' = << >>
  /\ pc' = "tokens"

\* whether a draw of this call can meet a total weight of zero
zero_total(cfgs) ==
  \E n \in AlgoNames :
    LET w == effective_algo_cfgs(cfgs)[n]
    IN  w # None /\ w[1] + w[2] <= 0

Interpreters(cfgs) == IF zero_total(cfgs) THEN BOOLEAN ELSE { TRUE }

\* boomer(inp, cfgs, sd) is called
Call ==
  /\ pc = "idle"
  /\ \E inp \in Inputs, cfgs \in Cfgs, sd \in Seeds :
       /\ Enter(inp, cfgs, sd, rng)
       /\ raises' \in Interpreters(cfgs)
  /\ UNCHANGED << order, run, first >>

\* boomer(inp, AllOff, None) is called on a free-form text
CallPlain ==
  /\ pc = "idle"
  /\ \E inp \in Texts : Enter(inp, AllOff, None, rng)
  /\ UNCHANGED << order, raises, run, first >>

\* boomer(inp, cfgs, n) is called with a seed, to be called again
CallSeeded ==
  /\ pc = "idle"
  /\ \E inp \in TwiceInputs, cfgs \in TwiceCfgs, n \in 0..MaxSeed :
       Enter(inp, cfgs, << n >>, rng)
  /\ UNCHANGED << order, raises, run, first >>

\* the same call is made a second time, in a process of its own: the sets'
\* iteration order and the generator's state are any
Again ==
  /\ pc = "done"
  /\ run = 1
  /\ run' = 2
  /\ first' = output
  /\ \E o \in Orders, s \in RngStates :
       /\ order' = o
       /\ Enter(input, algo_cfgs, seed, s)
  /\ UNCHANGED raises

\* positions of algos, after pos, that hold an algorithm of the given kind
pending(kind) == { j \in (pos + 1)..Len(algos) : algos[j] \in kind }

\* a _retokenize_and_process that lacks lines 567-569: the algorithm gets the
\* tokens as the one before left them
process_without_retokenizing(toks, name, weights, s, env) ==
  the({ [before |-> toks, after |-> r.tokens, rng |-> r.rng,
         err |-> r.err, draws |-> r.draws, applied |-> r.applied] :
        r \in { process_tokens(name, weights, toks, s, env) } })

\* _retokenize_and_process(tokens, algo)
_retokenize_and_process(toks, name, weights, s, env) ==
  the({ the({ [before |-> fresh, after |-> r.tokens, rng |-> r.rng,
               err |-> r.err, draws |-> r.draws, applied |-> r.applied] :
              r \in { process_tokens(name, weights, fresh, s, env) } }) :
        fresh \in { _tokenize(_textize(toks)) } })

\* lines 635-637, one turn of the loop: the next token algorithm is name
TokenStage(name) ==
  /\ pending(TokenAlgos) # {}
  /\ algos[Min(pending(TokenAlgos))] = name
  /\ \E weights \in { effective_algo_cfgs(algo_cfgs)[name] } :
       \E r \in { _retokenize_and_process(tokens, name, weights, rng, Env) } :
         /\ rng' = r.rng
         /\ tokens' = r.after
         /\ pos' = Min(pending(TokenAlgos))
         /\ pc' = IF r.err THEN "error" ELSE "tokens"
         /\ log' = IF r.err THEN log
                   ELSE Append(log, [algo |-> name, weights |-> weights,
                                     before |-> r.before, after |-> r.after,
                                     draws |-> r.draws, applied |-> r.applied])
  /\ UNCHANGED << order, raises, input, algo_cfgs, seed, rand_state, algos,
                  output, rng_before, run, first >>

Monique == pc = "tokens" /\ TokenStage("monique")

Alain == pc = "tokens" /\ TokenStage("alain")

Nicole == pc = "tokens" /\ TokenStage("nicole")

Serge == pc = "tokens" /\ TokenStage("serge")

Andre == pc = "tokens" /\ TokenStage("andré")

Muriel == pc = "tokens" /\ TokenStage("muriel")

Denis == pc = "tokens" /\ TokenStage("denis")

Guy == pc = "tokens" /\ TokenStage("guy")

Chantal == pc = "tokens" /\ TokenStage("chantal")

Marc == pc = "tokens" /\ TokenStage("marc")

Manon == pc = "tokens" /\ TokenStage("manon")

\* line 640: output = _textize(tokens), once the first loop is over
ToText ==
  /\ pc = "tokens"
  /\ pending(TokenAlgos) = {}
  /\ output' = _textize(tokens)
  /\ pos' = 0
  /\ pc' = "text"
  /\ UNCHANGED << rng, order, raises, input, algo_cfgs, seed, rand_state,
                  tokens, algos, log, rng_before, run, first >>

\* lines 643-645, one turn of the loop: the next text algorithm is name
TextStage(name) ==
  /\ pending(TextAlgos) # {}
  /\ algos[Min(pending(TextAlgos))] = name
  /\ \E weights \in { effective_algo_cfgs(algo_cfgs)[name] } :
       \E r \in { process_text(name, weights, output, rng, Env) } :
         /\ rng' = r.rng
         /\ output' = IF r.err THEN output ELSE r.tokens
         /\ pos' = Min(pending(TextAlgos))
         /\ pc' = IF r.err THEN "error" ELSE "text"
         /\ log' = IF r.err THEN log
                   ELSE Append(log, [algo |-> name, weights |-> weights,
                                     before |-> output, after |-> r.tokens,
                                     draws |-> r.draws, applied |-> r.applied])
  /\ UNCHANGED << order, raises, input, algo_cfgs, seed, rand_state, tokens,
                  algos, rng_before, run, first >>

Sylvain == pc = "text" /\ TextStage("sylvain")

Josey == pc = "text" /\ TextStage("josey")

Yves == pc = "text" /\ TextStage("yves")

\* the generator after a boomer that lacks lines 648-649: left as the run
\* made it
restored_never(sd, saved, s) == s

\* lines 648-649: random.setstate(rand_state) when a seed was given
restored(sd, saved, s) == IF sd # None THEN saved ELSE s

\* lines 648-652: restore the generator, and return
Return ==
  /\ pc = "text"
  /\ pending(TextAlgos) = {}
  /\ rng' = restored(seed, rand_state, rng)
  /\ pc' = "done"
  /\ UNCHANGED << order, raises, input, algo_cfgs, seed, rand_state, tokens,
                  algos, pos, output, log, rng_before, run, first >>

\* one step of a call under way
Step ==
  \/ Monique \/ Alain \/ Nicole \/ Serge \/ Andre \/ Muriel \/ Denis \/ Guy
  \/ Chantal \/ Marc \/ Manon
  \/ ToText
  \/ Sylvain \/ Josey \/ Yves
  \/ Return

Next == Call \/ Step

\* calls on the texts and configurations of Inputs and Cfgs
Spec == Init /\ [][Next]_vars

NextPlain == CallPlain \/ ToText \/ Return

\* calls with every algorithm disabled, on free-form texts
SpecPlain == Init /\ [][NextPlain]_vars

NextTwice == CallSeeded \/ Step \/ Again

\* a seeded call made twice
SpecTwice == Init /\ [][NextTwice]_vars


(* ------------------------------------------------------------------ *)
(* Properties                                                           *)
(* ------------------------------------------------------------------ *)

\* the order in which the algorithms are declared to apply
DeclaredOrder ==
  << "monique", "alain", "nicole", "serge", "andré", "muriel", "denis",
     "guy", "chantal", "marc", "manon", "sylvain", "josey", "yves" >>

rank(name) == CHOOSE i \in DOMAIN DeclaredOrder : DeclaredOrder[i] = name

\* the algorithms DeclaredOrder lists as working on tokens
TokenRanked(name) == rank(name) <= 11

\* the algorithms that are not disabled in this call
Active == { n \in Range(DeclaredOrder) : effective_algo_cfgs(algo_cfgs)[n] # None }

\* the elements of s at the positions of keep, in order
pick(s, keep) ==
  [ j \in 1..Cardinality(keep) |->
      s[CHOOSE p \in keep : Cardinality({ q \in keep : q < p }) = j - 1] ]

\* s without its leading and trailing spaces, tabs and line breaks
Trimmed(s) ==
  pick(s, { p \in 1..Len(s) :
              /\ \E q \in 1..p : s[q] \notin { " ", "\t", "\n" }
              /\ \E q \in p..Len(s) : s[q] \notin { " ", "\t", "\n" } })

\* s with every space that follows a space removed
Collapsed(s) == pick(s, { p \in 1..Len(s) : ~(s[p] = " " /\ p > 1 /\ s[p - 1] = " ") })

\* no two spaces in a row, and no space or other whitespace at either end
SingleSpaced(s) ==
  /\ \A p \in 1..(Len(s) - 1) : ~(s[p] = " " /\ s[p + 1] = " ")
  /\ Len(s) > 0 => /\ s[1] \notin { " ", "\t", "\n" }
                   /\ s[Len(s)] \notin { " ", "\t", "\n" }

\* C1: the second of two calls of boomer with the same input, configuration
\* and seed returns the string the first one returned, whatever the
\* generator's state and the sets' iteration order at each call.
C1_Determinism == (run = 2 /\ pc = "done") => output = first

\* C2: when a call of boomer with a seed has returned, the process-wide
\* generator is in the state it had just before the call.
C2_SeedIsolation == (pc = "done" /\ seed # None) => rng = rng_before

\* a seeded call that made draws has returned, and seeding had moved the
\* generator away from the state it had before the call
C2_Witness ==
  /\ pc = "done"
  /\ seed # None
  /\ seedState(seed[1]) # rng_before
  /\ \E k \in DOMAIN log : log[k].draws > 0
  /\ rng = rng_before

\* what entry k of the log must have been given, from the entry before it
GivenTo(k) ==
  IF TokenRanked(log[k].algo)
    THEN _tokenize(_textize(IF k = 1 THEN _tokenize(input)
                            ELSE log[k - 1].after))
  ELSE IF k = 1 THEN _textize(_tokenize(input))
  ELSE IF TokenRanked(log[k - 1].algo) THEN _textize(log[k - 1].after)
  ELSE log[k - 1].after

\* C3: the algorithms applied so far are, in the declared order, the active
\* ones up to the last applied (all of them once boomer has returned), so no
\* disabled one and no text algorithm before a token algorithm; each token
\* algorithm was given the retokenized text of what the one before left,
\* each text algorithm the output of the one before; what boomer returns is
\* what the last one made.
C3_PipelineOrder ==
  /\ \A k \in DOMAIN log :
       /\ log[k].algo \in Active
       /\ { n \in Active : rank(n) < rank(log[k].algo) }
            = { log[j].algo : j \in 1..(k - 1) }
       /\ k > 1 => rank(log[k - 1].algo) < rank(log[k].algo)
       /\ log[k].before = GivenTo(k)
  /\ pc = "done" =>
       /\ { log[k].algo : k \in DOMAIN log } = Active
       /\ output = IF log = << >> THEN _textize(_tokenize(input))
                   ELSE IF TokenRanked(log[Len(log)].algo)
                     THEN _textize(log[Len(log)].after)
                   ELSE log[Len(log)].after

\* boomer has returned from a call with a disabled algorithm, in which a
\* token algorithm was given other tokens than the one before it had left
C3_Witness ==
  /\ pc = "done"
  /\ Active # Range(DeclaredOrder)
  /\ \E k \in 2..Len(log) :
       /\ TokenRanked(log[k].algo)
       /\ log[k].before # log[k - 1].after
       /\ log[k].before = _tokenize(_textize(log[k - 1].after))

\* the tokens of a stage that its algorithm's filter lets through
eligible(e) ==
  { i \in DOMAIN e.before : filter(e.algo, e.before[i], order) }

\* the scan positions of a text stage where its algorithm has a draw to make
\* when every draw is True: sylvain's spaces, josey's characters, and for
\* yves the matches of its strings, found from left to right
RECURSIVE yves_positions(_, _)
yves_positions(text, i) ==
  IF i > Len(text) THEN 0
  ELSE the({ IF hit = {} THEN yves_positions(text, i + 1)
             ELSE 1 + yves_positions(text, i + Len(yves_reps[Min(hit)][1])) :
             hit \in { { k \in DOMAIN yves_reps :
                           startswith(drop(text, i - 1), yves_reps[k][1]) } } })

positions(e) ==
  CASE e.algo = "sylvain" ->
         Cardinality({ i \in DOMAIN e.before : e.before[i] = " " })
    [] e.algo = "josey" -> Len(e.before)
    [] e.algo = "yves" -> yves_positions(e.before, 1)

\* C4: a stage whose configured pair is (n, 0) with n > 0 transformed every
\* eligible token (its text is another one afterwards; manon may swap two
\* equal letters) or every eligible scan position, and a stage whose
\* configured pair is (0, n) with n > 0 left its input as it was.
C4_WeightExtremes ==
  \A k \in DOMAIN log :
    /\ (log[k].weights[1] > 0 /\ log[k].weights[2] = 0) =>
         IF TokenRanked(log[k].algo)
           THEN \A i \in eligible(log[k]) :
                  \/ log[k].algo = "manon"
                  \/ log[k].after[i] # log[k].before[i]
           ELSE log[k].applied = positions(log[k])
    /\ (log[k].weights[1] = 0 /\ log[k].weights[2] > 0) =>
         log[k].after = log[k].before

\* C5: a call whose effective configuration gives (0, 0) to an active
\* algorithm does not return, and when it has ended in the error no
\* algorithm has been applied (on an interpreter whose random.choices
\* rejects a total weight of zero).
C5_FailFast ==
  (/\ pc # "idle"
   /\ raises
   /\ \E n \in Active : effective_algo_cfgs(algo_cfgs)[n] = <<0, 0>>)
    => /\ pc # "done"
       /\ pc = "error" => log = << >>

\* the characters that close a fragment
Closing == { ",", ".", ":", ";", "!", "?", ")", "]", "}" }

\* a line break the output loses: it ends its fragment, right after closing
\* punctuation that at least one character precedes, and the fragment holds
\* no other line break
DroppedBreak(s, p) ==
  /\ s[p] = "\n"
  /\ p = Len(s) \/ s[p + 1] = " "
  /\ p >= 3
  /\ s[p - 1] \in Closing
  /\ \E a \in 1..(p - 2) :
       /\ a = 1 \/ s[a - 1] = " "
       /\ \A i \in a..(p - 1) : s[i] \notin { " ", "\n" }

\* C6, as the code has it: with every algorithm disabled, boomer returns the
\* input without its leading and trailing whitespace, the runs of spaces
\* inside it kept as they are, and without the line breaks that end a
\* fragment right after its closing punctuation.
C6_AllDisabled ==
  pc = "done" =>
    output = Trimmed(pick(input, { p \in 1..Len(input) :
                                     ~DroppedBreak(input, p) }))

\* C6, as the specification has it: with every algorithm disabled, boomer
\* returns the input without its leading and trailing whitespace and with
\* every run of spaces inside it collapsed to one space.
C6_Collapsed == pc = "done" => output = Collapsed(Trimmed(input))

\* boomer has returned a text that keeps two spaces in a row, shorter than
\* the input it was given
C6_Witness ==
  /\ pc = "done"
  /\ algos = << >>
  /\ Len(output) < Len(input)
  /\ \E p \in 1..(Len(output) - 1) : output[p] = " " /\ output[p + 1] = " "

\* C7: for a text s whose words single spaces separate, with no whitespace
\* at either end, _textize(_tokenize(s)) is s (with every algorithm
\* disabled, output is _textize(_tokenize(input)) from line 640 on).
C7_RoundTrip ==
  (pc = "text" /\ algos = << >> /\ SingleSpaced(input)) => output = input

\* first letter uppercase, no other uppercase letter, and a lowercase one
Capitalized(t) ==
  /\ Len(t) > 0
  /\ t[1] \in UpperSet
  /\ \A i \in 2..Len(t) : t[i] \notin UpperSet
  /\ \E i \in 2..Len(t) : t[i] \in LowerSet

\* C8: a token whose text monique, alain, nicole or serge has replaced keeps
\* its casing: all lowercase, all uppercase, or capitalized.
C8_CasingPreserved ==
  \A k \in DOMAIN log :
    log[k].algo \in { "monique", "alain", "nicole", "serge" } =>
      \A i \in DOMAIN log[k].before :
        log[k].after[i].text # log[k].before[i].text =>
          /\ islower(log[k].before[i].text) => islower(log[k].after[i].text)
          /\ isupper(log[k].before[i].text) => isupper(log[k].after[i].text)
          /\ Capitalized(log[k].before[i].text)
               => Capitalized(log[k].after[i].text)

\* all the suffixes alain knows
KnownSuffixes == UNION { Range(_suffix_sets[j]) : j \in DOMAIN _suffix_sets }

\* the known suffixes a longer token ends with, lowercased
endings(t) ==
  { x \in KnownSuffixes : Len(t) > Len(x) /\ endswith(lower(t), x) }

\* C9: a token alain has transformed lost the longest known suffix it ended
\* with, and got another member of that suffix's set in its place.
C9_LongestSuffix ==
  \A k \in DOMAIN log :
    log[k].algo = "alain" =>
      \A i \in DOMAIN log[k].before :
        log[k].after[i].text # log[k].before[i].text =>
          \E x \in endings(log[k].before[i].text) :
            /\ \A y \in endings(log[k].before[i].text) : Len(y) <= Len(x)
            /\ \E j \in DOMAIN _suffix_sets :
                 /\ x \in Range(_suffix_sets[j])
                 /\ \E m \in Range(_suffix_sets[j]) \ { x } :
                      lower(log[k].after[i].text)
                        = lower(dropLast(log[k].before[i].text, Len(x))) \o m

\* the accented letters guy knows, lowercase and uppercase, and the letter
\* each one becomes
Unaccented(c) ==
  CASE c \in { "à", "â" } -> "a"
    [] c \in { "À", "Â" } -> "A"
    [] c \in { "è", "é", "ê", "ë" } -> "e"
    [] c \in { "È", "É", "Ê", "Ë" } -> "E"
    [] c = "ï" -> "i"
    [] c = "Ï" -> "I"
    [] c \in { "ö", "ô" } -> "o"
    [] c \in { "Ö", "Ô" } -> "O"
    [] c \in { "ù", "ü" } -> "u"
    [] c \in { "Ù", "Ü" } -> "U"
    [] c = "ç" -> "c"
    [] c = "Ç" -> "C"
    [] OTHER -> c

\* guy is the algorithm the token loop applies next
GuyIsNext ==
  /\ pc = "tokens"
  /\ pending(TokenAlgos) # {}
  /\ algos[Min(pending(TokenAlgos))] = "guy"

\* what guy makes of the tokens it is about to get, were the generator in
\* state s
GuyMakes(s) ==
  process_tokens("guy", effective_algo_cfgs(algo_cfgs)["guy"],
                 _tokenize(_textize(tokens)), s, Env).tokens

\* C10: guy leaves every character of a token as it was or, an accented
\* letter of its map, replaced by its unaccented equivalent of the same case;
\* and when guy is about to get a token with such a letter, whatever its
\* configured pair, there is a state of the generator from which it keeps
\* one and a state from which it replaces one.
C10_AccentStripping ==
  /\ \A k \in DOMAIN log :
       log[k].algo = "guy" =>
         \A i \in DOMAIN log[k].before :
           /\ Len(log[k].after[i].text) = Len(log[k].before[i].text)
           /\ \A j \in 1..Len(log[k].before[i].text) :
                log[k].after[i].text[j]
                  \in { log[k].before[i].text[j],
                        Unaccented(log[k].before[i].text[j]) }
  /\ (/\ GuyIsNext
      /\ \E i \in DOMAIN _tokenize(_textize(tokens)) :
           \E j \in 1..Len(_tokenize(_textize(tokens))[i].text) :
             Unaccented(_tokenize(_textize(tokens))[i].text[j])
               # _tokenize(_textize(tokens))[i].text[j])
       => /\ \E s \in RngStates :
               \E i \in DOMAIN GuyMakes(s) :
                 \E j \in 1..Len(GuyMakes(s)[i].text) :
                   /\ Unaccented(GuyMakes(s)[i].text[j])
                        # GuyMakes(s)[i].text[j]
          /\ \E s \in RngStates :
               \E i \in DOMAIN GuyMakes(s) :
                 \E j \in 1..Len(GuyMakes(s)[i].text) :
                   GuyMakes(s)[i].text[j]
                     # _tokenize(_textize(tokens))[i].text[j]

\* how many characters of closing punctuation the fragment f ends with
TrailingRun(f) ==
  Cardinality({ n \in 1..Len(f) :
                  \A i \in (Len(f) - n + 1)..Len(f) : f[i] \in Closing })

\* the tokens the fragment f is to become: the word before its trailing
\* run of closing punctuation, without trailing space, and the whole run,
\* with trailing space; the fragment alone when it ends with no such run.
\* Of a fragment that is closing punctuation throughout, or that holds a
\* line break, nothing is asked.
FragmentTokens(f) ==
  IF TrailingRun(f) = Len(f) \/ \E i \in 1..Len(f) : f[i] = "\n"
    THEN tokens_of(f)
  ELSE IF TrailingRun(f) = 0
    THEN << [text |-> f, has_trailing_space |-> TRUE] >>
  ELSE << [text |-> SubSeq(f, 1, Len(f) - TrailingRun(f)),
           has_trailing_space |-> FALSE],
          [text |-> SubSeq(f, Len(f) - TrailingRun(f) + 1, Len(f)),
           has_trailing_space |-> TRUE] >>

\* C11: the tokens _tokenize makes of the input (boomer's tokens at line
\* 599) are, fragment by fragment of the input split at its spaces, a word
\* token without trailing space and one punctuation token with trailing
\* space that holds the fragment's entire trailing run of , . : ; ! ? ) ] }
\* when the fragment ends with such a run, and the fragment as a single
\* token with trailing space otherwise.
C11_PunctuationSplit ==
  (pc = "tokens" /\ algos = << >>) =>
    tokens = join([ m \in DOMAIN split(input) |->
                      FragmentTokens(split(input)[m]) ])

\* C12: when a call of boomer with a seed has ended in an error raised
\* during processing, the process-wide generator is in the state it had just
\* before the call.
C12_SeedIsolationOnFailure ==
  (pc = "error" /\ seed # None) => rng = rng_before
====
